---------------------------- MODULE Spec2Model ----------------------------
(***************************************************************************)
(* A model of rename-from-QR.py: discovery of the image files of a         *)
(* directory (find_images), the scan of one image (open_image, qr_code),   *)
(* the grouping of the scan results into target names (_find_duplicates,   *)
(* _file_mapping) and the concurrent renames (rename_image, main).         *)
(*                                                                         *)
(* Text is modelled as a sequence of tokens, each token standing for a     *)
(* fixed piece of text that no other token overlaps ("UMMZI", "_copy",     *)
(* ".jpg", "/", one letter, one digit), so two texts are equal exactly     *)
(* when their token sequences are equal, and concatenation, prefix and     *)
(* suffix tests are those of the text.  File system semantics are those of *)
(* POSIX: names are case sensitive and os.rename replaces its destination. *)
(***************************************************************************)
EXTENDS Naturals, Sequences, FiniteSets, TLC

VARIABLES
    fs,          \* the file system: path -> identity of the file stored there
    pc,          \* where the modelled code stands
    unscanned,   \* find_images' return value (get_qr_codes line 193)
    results,     \* get_qr_codes' return value: a list of (path, payload)
    mapping,     \* _file_mapping's return value: path -> target path
    directory,   \* the directory get_qr_codes was called with
    dirs,        \* main: its parameter, the argument list of directories
    todo,        \* main: the directories of the argument list still to come
    scans,       \* the scan tasks of line 200: path -> state and result
    renames,     \* the rename_image tasks of line 228: old path -> state
    fs0,         \* the file system when main was called
    filename,    \* qr_code: its argument
    scanPc,      \* qr_code: the state of the scan
    idx,         \* qr_code: the position in product(ANGLES, FILTERS), from 1
    attempts,    \* qr_code: a log of the attempts made so far
    ret,         \* qr_code: the value returned, None before
    raised       \* qr_code: the exception that left it, None without one

runVars == <<fs, pc, unscanned, results, mapping, directory,
             todo, scans, renames, fs0, dirs>>
scanVars == <<filename, scanPc, idx, attempts, ret, raised>>
vars == <<fs, pc, unscanned, results, mapping, directory,
          todo, scans, renames, fs0, dirs,
          filename, scanPc, idx, attempts, ret, raised>>

----------------------------------------------------------------------------
(* Bounds of the model.                                                    *)

\* The largest number of files in a directory tree or in a result list.
MaxFiles == 3

\* The number of angles of ANGLES (line 60) that are configured.
MaxAngles == 2

\* The number of threads of the executor (the option --threads).
MaxWorkers == 2

----------------------------------------------------------------------------
(* Text.                                                                   *)

\* "UMMZI", the literal of lines 114, 115, 161 and 178.
MARKER == <<"UMMZI">>

\* str.startswith
StartsWith(s, prefix) ==
    /\ Len(s) >= Len(prefix)
    /\ SubSeq(s, 1, Len(prefix)) = prefix

\* str.endswith
EndsWith(s, suffix) ==
    /\ Len(s) >= Len(suffix)
    /\ SubSeq(s, Len(s) - Len(suffix) + 1, Len(s)) = suffix

\* The decimal digits, as tokens.
Digits == <<"0", "1", "2", "3", "4", "5", "6", "7", "8", "9">>

\* The decimal text of a natural number, as the f-string of line 142 prints it.
RECURSIVE Decimal(_)
Decimal(n) ==
    IF n < 10 THEN <<Digits[n + 1]>>
    ELSE Decimal(n \div 10) \o <<Digits[(n % 10) + 1]>>

\* The tokens that are a file name extension (a dot followed by letters).
ExtTokens == {".jpg", ".jpeg", ".JPG", ".JEPG", ".JPEG", ".png"}

\* The positions of "/" in a path.
SlashPositions(p) == {i \in 1..Len(p) : p[i] = "/"}

\* The largest element of a non-empty set of numbers.
Max(S) == CHOOSE m \in S : \A x \in S : x <= m

\* str.rfind("/") + 1: the position after the last "/", 0 + 1 without one.
AfterLastSlash(p) ==
    IF SlashPositions(p) = {} THEN 1 ELSE Max(SlashPositions(p)) + 1

\* str.rstrip("/")
RECURSIVE RStripSlash(_)
RStripSlash(s) ==
    IF Len(s) > 0 /\ s[Len(s)] = "/" THEN RStripSlash(SubSeq(s, 1, Len(s) - 1))
    ELSE s

\* os.path.dirname (posixpath): the part before the last "/", its trailing
\* slashes stripped unless it consists of slashes only.
Dirname(p) ==
    LET head == SubSeq(p, 1, AfterLastSlash(p) - 1)
    IN  IF RStripSlash(head) = <<>> THEN head ELSE RStripSlash(head)

\* os.path.basename (posixpath): the part after the last "/".
Basename(p) == SubSeq(p, AfterLastSlash(p), Len(p))

\* os.path.splitext(...)[0] of a base name: the name without its last
\* extension; a name that is only an extension (a dot file) keeps it.
SplitextRoot(name) ==
    IF Len(name) >= 2 /\ name[Len(name)] \in ExtTokens
    THEN SubSeq(name, 1, Len(name) - 1)
    ELSE name

\* os.path.join(a, b) (posixpath): b alone when b is absolute or a is empty,
\* else a and b with one "/" between them.
Join(a, b) ==
    IF StartsWith(b, <<"/">>) THEN b
    ELSE IF a = <<>> \/ EndsWith(a, <<"/">>) THEN a \o b
    ELSE a \o <<"/">> \o b

\* Lines 155 and 187 without splitext: the base name with its extension.
FallbackNameWithExtension(path) == Basename(path)

\* The fallback payload of lines 155 and 187.
FallbackName(path) == SplitextRoot(Basename(path))

----------------------------------------------------------------------------
(* find_images (lines 106-117).                                            *)

\* One file name pattern "<prefix>*<suffix>" of glob: the name starts with
\* the prefix, ends with the suffix, the two not overlapping; "*" does not
\* match a leading dot.
MatchesPattern(name, prefix, suffix) ==
    /\ Len(name) >= Len(prefix) + Len(suffix)
    /\ StartsWith(name, prefix)
    /\ EndsWith(name, suffix)
    /\ name[1] \notin ExtTokens

\* iglob(directory + "/**/<prefix>*<suffix>", recursive=True): the files
\* at any depth below the directory whose base name matches the pattern.
Iglob(files, dir, prefix, suffix) ==
    {p \in files :
        /\ StartsWith(p, dir \o <<"/">>)
        /\ MatchesPattern(Basename(p), prefix, suffix)}

\* Lines 114-115: the patterns subtracted from the set.
ExcludedImages(files, dir) ==
    Iglob(files, dir, MARKER, <<".jpg">>)
        \cup Iglob(files, dir, MARKER, <<".JPG">>)

find_images(files, dir) ==
    (Iglob(files, dir, <<>>, <<".jpg">>)
        \cup Iglob(files, dir, <<>>, <<".jpeg">>)
        \cup Iglob(files, dir, <<"i", "m", "a", "g", "e">>, <<".jpg">>)
        \cup Iglob(files, dir, <<>>, <<".JPG">>)
        \cup Iglob(files, dir, <<>>, <<".JEPG">>))
    \ ExcludedImages(files, dir)

----------------------------------------------------------------------------
(* _find_duplicates and _file_mapping (lines 119-145).                     *)

\* rev of line 123 after the loop: payload -> set of the paths that have it.
_find_duplicates(res) ==
    [qr \in {res[i][2] : i \in DOMAIN res} |->
        {res[i][1] : i \in {j \in DOMAIN res : res[j][2] = qr}}]

\* The orders in which a Python set can be iterated: every sequence that
\* lists each member once.
Enumerations(S) ==
    {s \in [1..Cardinality(S) -> S] : \A x \in S : \E i \in DOMAIN s : s[i] = x}

\* One iteration order for each group: what enumerate(files) of line 140 may
\* produce (the order of a set of strings depends on the hash seed).
GroupOrders(groups) ==
    {o \in [DOMAIN groups -> UNION {Enumerations(groups[q]) : q \in DOMAIN groups}] :
        \A q \in DOMAIN groups : o[q] \in Enumerations(groups[q])}

\* Line 142 had enumerate counted from 1: no file gets the bare name.
CopySuffixCountedFromOne(i) == <<"_copy">> \o Decimal(i + 1) \o <<".jpg">>

\* Line 142: the suffix of the i-th file of a group (i counts from 0).
CopySuffix(i) ==
    IF i = 0 THEN <<".jpg">> ELSE <<"_copy">> \o Decimal(i) \o <<".jpg">>

\* Lines 141-143: the target of the i-th file f of the group of payload qr.
TargetPath(f, qr, i) == Join(Dirname(f), qr \o CopySuffix(i))

\* The paths of a result list.
ResultPaths(res) == {res[i][1] : i \in DOMAIN res}

\* The payload of path f in a result list that holds f once.
PayloadOf(res, f) == (CHOOSE i \in DOMAIN res : res[i][1] = f)
PayloadAt(res, f) == res[PayloadOf(res, f)][2]

\* The position of f in the sequence s.
IndexIn(s, f) == CHOOSE i \in DOMAIN s : s[i] = f

\* Lines 136-145, for the iteration orders `order` of the groups.  Each path
\* is in one group (find_images returns a set, so a result list holds a path
\* once), so the order of the groups does not matter.
_file_mapping(res, order) ==
    [f \in ResultPaths(res) |->
        LET qr == PayloadAt(res, f)
        IN  TargetPath(f, qr, IndexIn(order[qr], f) - 1)]

----------------------------------------------------------------------------
(* The files and payloads the inputs are drawn from.                       *)

\* The directories given on the command line, and a directory below one.
DirD == <<"d">>
DirE == <<"e">>
DirDS == <<"d", "/", "s">>
Directories == {DirD, DirE}

\* Payloads a QR code may hold: the second one ends in "_copy1", the third
\* one holds a path separator.
Payload1 == <<"UMMZI", "1">>
Payload1Copy1 == <<"UMMZI", "1", "_copy", "1">>
PayloadSlash == <<"UMMZI", "/", "1">>
ValidPayloads == {Payload1, Payload1Copy1, PayloadSlash}

\* File names: every extension find_images has a pattern for, with and
\* without the marker, and names it has no pattern for.
PlainNames ==
    {<<"a", ".jpg">>, <<"a", ".jpeg">>, <<"b", ".JPG">>, <<"b", ".JEPG">>,
     <<"b", ".JPEG">>, <<"a", ".png">>, <<"i", "m", "a", "g", "e", "1", ".jpg">>,
     <<"a", "_copy", "1", ".jpg">>}
MarkedNames ==
    {<<"UMMZI", "1", ".jpg">>, <<"UMMZI", "1", ".JPG">>,
     <<"UMMZI", "1", ".jpeg">>, <<"UMMZI", "1", ".JEPG">>}

\* The paths of the file systems find_images is run on.
FindUniverse ==
    {Join(DirD, n) : n \in PlainNames \cup MarkedNames}
        \cup {Join(DirDS, n) : n \in {<<"a", ".jpg">>, <<"UMMZI", "1", ".jpg">>}}
        \cup {Join(DirE, n) : n \in {<<"a", ".jpg">>, <<"UMMZI", "1", ".jpeg">>}}

\* The subsets of S of at most n elements.
SubsetsUpTo(S, n) == {T \in SUBSET S : Cardinality(T) <= n}

\* A file system holding the files of the set S, each file identified by
\* the path it has at the start.
FileSystem(S) == [p \in S |-> p]

\* The empty function: an empty file system, an empty mapping.
Empty == <<>>

\* The paths the result lists of _file_mapping are about.
MappingUniverse ==
    {Join(DirD, <<"a", ".jpg">>), Join(DirD, <<"a", ".jpeg">>),
     Join(DirD, <<"a", "_copy", "1", ".jpg">>), Join(DirD, <<"b", ".JPG">>),
     Join(DirDS, <<"a", ".jpg">>)}

\* What qr_code may return for a path: a payload with the marker (line 166
\* or 181) or the fallback name (line 155 or 187).
ScanResultsOf(f) == {<<f, p>> : p \in ValidPayloads \cup {FallbackName(f)}}

\* The result lists of get_qr_codes over the paths of U: one entry for each
\* path of a set of at most MaxFiles paths, in any order.
ResultLists(U) ==
    {s \in UNION {[1..n -> UNION {ScanResultsOf(f) : f \in U}] : n \in 0..MaxFiles} :
        \A i, j \in DOMAIN s : i # j => s[i][1] # s[j][1]}

----------------------------------------------------------------------------
(* open_image (lines 81-104) and the decoder.                              *)

\* Python's None where a name is expected (a filter, an exception), where
\* an image is expected and where a tuple is expected.
None == "None"
NoImage == [loaded |-> FALSE]
NoValue == <<>>

\* Lines 60 and 67.
ANGLES == <<180, 90, 270, 10, 170, 75, 340>>
FILTERS == <<"blur", "smooth">>

\* Line 79.
MONOCHROME == FALSE

\* Lines 69-77.
MAP_FILTERS ==
    [f \in {"none", "all", "blur", "smooth", "detail", "edges", "sharpen"} |->
        CASE f = "none" -> None
          [] f = "all" -> "all"
          [] f = "blur" -> "BLUR"
          [] f = "smooth" -> "SMOOTH_MORE"
          [] f = "detail" -> "DETAIL"
          [] f = "edges" -> "EDGE_ENHANCE_MORE"
          [] f = "sharpen" -> "SHARPEN"]

\* The defaults of open_image's parameters (line 81).
DefaultRotate == 1
DefaultFilter == "blur"

\* The configured angle sequence: the first MaxAngles angles of ANGLES (the
\* option --angles, line 274), and the configured filter sequence.
Angles == SubSeq(ANGLES, 1, IF MaxAngles < Len(ANGLES) THEN MaxAngles ELSE Len(ANGLES))
Filters == FILTERS

\* open_image(image_file, rotate, filter) when Image.open succeeds or fails
\* (`loads`): the image with the transforms applied to it, or None for any
\* exception (lines 103-104).  "all" names no filter, so img.filter raises.
open_image(loads, rotate, filter) ==
    IF ~loads THEN NoImage
    ELSE IF filter # None /\ MAP_FILTERS[filter] = "all" THEN NoImage
    ELSE [loaded |-> TRUE,
          rotated |-> IF rotate # 0 THEN rotate ELSE 0,
          filtered |-> IF filter # None /\ MAP_FILTERS[filter] # None
                       THEN MAP_FILTERS[filter] ELSE None,
          monochrome |-> MONOCHROME]

\* The data of a decoded symbol: bytes that are the UTF-8 of a text, or
\* bytes that are no UTF-8 at all.
Utf8(text) == [utf8 |-> TRUE, text |-> text]
NotUtf8 == [utf8 |-> FALSE, text |-> <<>>]

\* A text without the marker.
OtherText == <<"h", "i">>

\* What pyzbar's decode may return for an image: a list of symbols, each
\* with its type and its data.  decode is called without `symbols`, so
\* symbols of every type are returned.
DecodeResults ==
    { <<>>,
      << [type |-> "QRCODE", data |-> Utf8(OtherText)] >>,
      << [type |-> "QRCODE", data |-> Utf8(Payload1)] >>,
      << [type |-> "QRCODE", data |-> NotUtf8] >>,
      << [type |-> "CODE128", data |-> Utf8(Payload1Copy1)] >>,
      << [type |-> "QRCODE", data |-> Utf8(OtherText)],
         [type |-> "QRCODE", data |-> Utf8(Payload1)] >> }

\* decode(img): pyzbar raises TypeError for None (it unpacks its argument
\* as a (pixels, width, height) tuple when it is no image), else returns
\* the symbols `codes` it finds in the image.
Decode(img, codes) ==
    IF img = NoImage THEN [called |-> TRUE, error |-> "TypeError", codes |-> <<>>]
    ELSE [called |-> TRUE, error |-> None, codes |-> codes]

\* Every way decode can answer for an image: it returns symbols, or, for
\* an image, zbar fails and pyzbar raises PyZbarError.
DecodeOutcomes(img) ==
    {Decode(img, c) : c \in DecodeResults}
        \cup (IF img = NoImage THEN {}
              ELSE {[called |-> TRUE, error |-> "PyZbarError", codes |-> <<>>]})

\* The log entry of an attempt that did not come to call decode.
NotDecoded == [called |-> FALSE, error |-> None, codes |-> <<>>]

----------------------------------------------------------------------------
(* qr_code (lines 147-187).                                                *)

\* Line 169 with the loops exchanged: for each element of b, each of a.
RECURSIVE productInnerFirst(_, _)
productInnerFirst(a, b) ==
    IF b = <<>> THEN <<>>
    ELSE [i \in 1..Len(a) |-> <<a[i], Head(b)>>] \o productInnerFirst(a, Tail(b))

\* itertools.product(a, b) (line 169): for each element of a, in order,
\* each element of b, in order.
RECURSIVE product(_, _)
product(a, b) ==
    IF a = <<>> THEN <<>>
    ELSE [j \in 1..Len(b) |-> <<Head(a), b[j]>>] \o product(Tail(a), b)

\* Lines 159-166 and 174-181 without the test of the marker (lines 161 and
\* 178): any text is returned.
CodeOfAnyText(decoded) ==
    IF decoded.error # None THEN [error |-> decoded.error, code |-> NoValue]
    ELSE IF decoded.codes = <<>> THEN [error |-> "IndexError", code |-> NoValue]
    ELSE IF ~decoded.codes[1].data.utf8
        THEN [error |-> "UnicodeDecodeError", code |-> NoValue]
    ELSE [error |-> None, code |-> decoded.codes[1].data.text]

\* Lines 159-166 and 174-181, after decode returned: the exception raised
\* or the code returned.  qr[0] raises IndexError on an empty list,
\* data.decode raises UnicodeDecodeError, a code without the marker makes
\* the code raise IndexError itself.
CodeOf(decoded) ==
    IF decoded.error # None THEN [error |-> decoded.error, code |-> NoValue]
    ELSE IF decoded.codes = <<>> THEN [error |-> "IndexError", code |-> NoValue]
    ELSE IF ~decoded.codes[1].data.utf8
        THEN [error |-> "UnicodeDecodeError", code |-> NoValue]
    ELSE IF ~StartsWith(decoded.codes[1].data.text, MARKER)
        THEN [error |-> "IndexError", code |-> NoValue]
    ELSE [error |-> None, code |-> decoded.codes[1].data.text]

\* The exceptions the handlers of lines 167 and 182 catch.
Caught(error) == error = "IndexError"

\* The (rotate, filter) pairs of the loop of line 169.
Transforms == product(Angles, Filters)

\* The state after the attempts before position j of the loop all failed:
\* the next attempt, or the fallback of line 187 after the last.
AfterIndexError(f, j) ==
    IF j <= Len(Transforms)
    THEN [scanPc |-> "TryingTransforms", idx |-> j, ret |-> NoValue,
          raised |-> None]
    ELSE [scanPc |-> "Exhausted", idx |-> j,
          ret |-> <<f, FallbackName(f)>>, raised |-> None]

\* The attempts without the return statements of lines 166 and 181: a code
\* that was found is dropped and the loop goes on.
AfterAttemptWithoutReturn(f, code, j) ==
    IF code.error = None \/ Caught(code.error)
    THEN AfterIndexError(f, j)
    ELSE [scanPc |-> "Raised", idx |-> j - 1, ret |-> NoValue,
          raised |-> code.error]

\* The state after an attempt on file f ended with `code` (the result of
\* CodeOf), j being the position of the next attempt: the code is returned
\* (lines 166, 181), or the exception is caught (lines 167, 182) and the
\* loop goes on, or the exception leaves qr_code.
AfterAttempt(f, code, j) ==
    IF code.error = None
    THEN [scanPc |-> "Found", idx |-> j - 1, ret |-> <<f, code.code>>,
          raised |-> None]
    ELSE IF Caught(code.error)
    THEN AfterIndexError(f, j)
    ELSE [scanPc |-> "Raised", idx |-> j - 1, ret |-> NoValue,
          raised |-> code.error]

\* The arguments of the open_image call of line 151.
DirectArguments == [rotate |-> DefaultRotate, filter |-> DefaultFilter]

\* Lines 150-166: the image is loaded; if that fails the fallback is
\* returned (line 155), else the image is decoded.
TryDirect ==
    /\ scanPc = "NotStarted"
    /\ \E loads \in BOOLEAN :
        LET img == open_image(loads, DirectArguments.rotate, DirectArguments.filter)
        IN  IF img = NoImage
            THEN /\ scanPc' = "Exhausted"
                 /\ ret' = <<filename, FallbackName(filename)>>
                 /\ attempts' = Append(attempts,
                        [kind |-> "direct", rotate |-> DirectArguments.rotate,
                         filter |-> DirectArguments.filter, img |-> img,
                         decoded |-> NotDecoded])
                 /\ UNCHANGED <<idx, raised>>
            ELSE \E decoded \in DecodeOutcomes(img) :
                    LET next == AfterAttempt(filename, CodeOf(decoded), 1)
                    IN  /\ scanPc' = next.scanPc
                        /\ idx' = next.idx
                        /\ ret' = next.ret
                        /\ raised' = next.raised
                        /\ attempts' = Append(attempts,
                               [kind |-> "direct", rotate |-> DirectArguments.rotate,
                                filter |-> DirectArguments.filter, img |-> img,
                                decoded |-> decoded])
    /\ UNCHANGED <<filename, runVars>>

\* Lines 169-183: one iteration of the loop.
TryTransform ==
    /\ scanPc = "TryingTransforms"
    /\ \E loads \in BOOLEAN :
        LET degrees == Transforms[idx][1]
            filters == Transforms[idx][2]
            img == open_image(loads, degrees, filters)
        IN  \E decoded \in DecodeOutcomes(img) :
                LET next == AfterAttempt(filename, CodeOf(decoded), idx + 1)
                IN  /\ scanPc' = next.scanPc
                    /\ idx' = next.idx
                    /\ ret' = next.ret
                    /\ raised' = next.raised
                    /\ attempts' = Append(attempts,
                           [kind |-> "transform", rotate |-> degrees,
                            filter |-> filters, img |-> img, decoded |-> decoded])
    /\ UNCHANGED <<filename, runVars>>

\* qr_code as a function of the file and of what open_image and decode
\* answer in each attempt (answers[1] in the direct one, answers[j + 1] in
\* the j-th of the loop): the state the scan ends in.  The state reached
\* and the answers are values (s, a) that each step of the loop computes
\* once.
RECURSIVE TransformLoop(_, _, _)
TransformLoop(f, answers, state) ==
    CHOOSE end \in
        {IF s.scanPc # "TryingTransforms" THEN s
         ELSE LET j == s.idx
                  img == open_image(a[j + 1].loads, Transforms[j][1], Transforms[j][2])
              IN  TransformLoop(f, a,
                      AfterAttempt(f, CodeOf(Decode(img, a[j + 1].codes)), j + 1))
            : s \in {state}, a \in {answers}} : TRUE

qr_code(f, answers) ==
    LET img == open_image(answers[1].loads, DirectArguments.rotate,
                          DirectArguments.filter)
    IN  IF img = NoImage
        THEN [scanPc |-> "Exhausted", idx |-> 0,
              ret |-> <<f, FallbackName(f)>>, raised |-> None]
        ELSE TransformLoop(f, answers,
                 AfterAttempt(f, CodeOf(Decode(img, answers[1].codes)), 1))

\* The files qr_code is called with.
ScanUniverse == {Join(DirD, <<"a", ".jpg">>), Join(DirDS, <<"b", ".JPG">>)}

\* No scan is modelled.
ScanIdle ==
    /\ filename = <<>>
    /\ scanPc = "Idle"
    /\ idx = 0
    /\ attempts = <<>>
    /\ ret = NoValue
    /\ raised = None

\* No run is modelled.
RunIdle ==
    /\ fs = Empty
    /\ pc = "idle"
    /\ unscanned = {}
    /\ results = <<>>
    /\ mapping = Empty
    /\ directory = <<>>
    /\ todo = <<>>
    /\ scans = Empty
    /\ renames = Empty
    /\ fs0 = Empty
    /\ dirs = <<>>

----------------------------------------------------------------------------
(* One scan alone: qr_code called with a file, open_image and the decoder  *)
(* answering each call in any way they can.                                *)

InitScan ==
    /\ filename \in ScanUniverse
    /\ scanPc = "NotStarted"
    /\ idx = 0
    /\ attempts = <<>>
    /\ ret = NoValue
    /\ raised = None
    /\ RunIdle

NextScan == TryDirect \/ TryTransform

SpecScan == InitScan /\ [][NextScan]_vars

----------------------------------------------------------------------------
(* The discovery alone: find_images run on the file systems of at most     *)
(* MaxFiles files, any number of times.                                    *)

InitFind ==
    /\ fs \in {FileSystem(S) : S \in SubsetsUpTo(FindUniverse, MaxFiles)}
    /\ pc = "find"
    /\ unscanned = {}
    /\ results = <<>>
    /\ mapping = Empty
    /\ directory = <<>>
    /\ todo = <<>>
    /\ scans = Empty
    /\ renames = Empty
    /\ fs0 = fs
    /\ dirs = <<>>
    /\ ScanIdle

\* Line 193, for a directory of the argument list.
FindImages ==
    /\ pc \in {"find", "found"}
    /\ \E d \in Directories :
        /\ directory' = d
        /\ unscanned' = find_images(DOMAIN fs, d)
    /\ pc' = "found"
    /\ UNCHANGED <<fs, results, mapping, todo, scans, renames, fs0, dirs,
                   scanVars>>

NextFind == FindImages

SpecFind == InitFind /\ [][NextFind]_vars

----------------------------------------------------------------------------
(* The mapping alone: _file_mapping applied to every result list.          *)

InitMapping ==
    /\ results \in ResultLists(MappingUniverse)
    /\ pc = "map"
    /\ fs = Empty
    /\ unscanned = {}
    /\ mapping = Empty
    /\ directory = <<>>
    /\ todo = <<>>
    /\ scans = Empty
    /\ renames = Empty
    /\ fs0 = Empty
    /\ dirs = <<>>
    /\ ScanIdle

\* Line 227.
FileMapping ==
    /\ pc = "map"
    /\ \E order \in GroupOrders(_find_duplicates(results)) :
        mapping' = _file_mapping(results, order)
    /\ pc' = "mapped"
    /\ UNCHANGED <<fs, unscanned, results, directory, todo, scans, renames,
                   fs0, dirs, scanVars>>

NextMapping == FileMapping

SpecMapping == InitMapping /\ [][NextMapping]_vars

----------------------------------------------------------------------------
(* get_qr_codes, rename_image and main (lines 189-231).                    *)

\* The symbols of an image file of the runs, by the file's identity: what
\* decode finds in attempt k and in no other attempt.
Symbols(k, codes) ==
    [j \in 1..(1 + Len(Transforms)) |->
        [loads |-> TRUE, codes |-> IF j = k THEN codes ELSE <<>>]]

\* A file Image.open cannot load.
NoPicture == [j \in 1..(1 + Len(Transforms)) |-> [loads |-> FALSE, codes |-> <<>>]]

QR(text) == << [type |-> "QRCODE", data |-> Utf8(text)] >>

\* The files of the runs and what each holds.
ImageOf(file) ==
    CASE file = Join(DirD, <<"a", ".jpg">>) -> Symbols(1, QR(Payload1))
      [] file = Join(DirD, <<"b", ".jpg">>) -> Symbols(3, QR(Payload1))
      [] file = Join(DirD, <<"c", ".jpg">>) -> Symbols(1, QR(Payload1Copy1))
      [] file = Join(DirD, <<"y", ".jpg">>) ->
            Symbols(2, << [type |-> "QRCODE", data |-> NotUtf8] >>)
      [] file = Join(DirD, <<"x", ".jpeg">>) -> NoPicture
      [] file = Join(DirDS, <<"a", ".jpg">>) -> Symbols(1, QR(Payload1))
      [] file = Join(DirE, <<"a", ".jpg">>) -> Symbols(2, QR(Payload1))
      [] OTHER -> Symbols(1, <<>>)

RunUniverse ==
    {Join(DirD, n) : n \in {<<"a", ".jpg">>, <<"b", ".jpg">>, <<"c", ".jpg">>,
                            <<"x", ".jpg">>, <<"x", ".jpeg">>, <<"y", ".jpg">>,
                            <<"UMMZI", "1", ".jpg">>, <<"UMMZI", "1", ".jpeg">>}}
        \cup {Join(DirDS, n) : n \in {<<"a", ".jpg">>, <<"x", ".jpg">>}}
        \cup {Join(DirE, n) : n \in {<<"a", ".jpg">>, <<"x", ".jpg">>}}
        \cup {Join(DirD, <<"z", ".jpg">>)}

\* The argument lists main is called with.
ArgumentLists ==
    {<<DirD>>, <<DirD, DirE>>, <<DirE, DirD>>, <<DirD, DirD>>,
     <<DirE, DirD, DirE>>}

\* The range of a function.
Range(f) == {f[x] : x \in DOMAIN f}

\* The scan tasks in a state.
ScansIn(state) == {f \in DOMAIN scans : scans[f].state = state}

\* Lines 194-195 without the exit.
NoneDetectedIgnored(images) == FALSE

\* Line 194.
NoneDetected(images) == Cardinality(images) = 0

\* Lines 193-202: the images of the directory are discovered; without any
\* the process exits (line 195), else one scan per image is submitted to
\* the executor.
GetQrCodes ==
    /\ pc = "start"
    /\ unscanned' = find_images(DOMAIN fs, directory)
    /\ IF NoneDetected(unscanned')
       THEN /\ pc' = "exited"
            /\ scans' = Empty
       ELSE /\ pc' = "scanning"
            /\ scans' = [f \in unscanned' |->
                            [state |-> "queued", ret |-> NoValue, raised |-> None]]
    /\ UNCHANGED <<fs, results, mapping, directory, todo, renames, fs0, dirs,
                   scanVars>>

\* An executor that makes a new thread for every scan submitted.
WorkerAlwaysFree == TRUE

\* ThreadPoolExecutor(max_workers=workers), line 219: at most MaxWorkers
\* threads exist, so a scan is taken when fewer scans are running.
WorkerFree == Cardinality(ScansIn("running")) < MaxWorkers

\* A thread of the executor takes a submitted scan.
StartScan(f) ==
    /\ pc = "scanning"
    /\ scans[f].state = "queued"
    /\ WorkerFree
    /\ scans' = [scans EXCEPT ![f].state = "running"]
    /\ UNCHANGED <<fs, pc, unscanned, results, mapping, directory, todo,
                   renames, fs0, dirs, scanVars>>

\* The thread's call of qr_code returns or raises.
FinishScan(f) ==
    /\ pc = "scanning"
    /\ scans[f].state = "running"
    /\ LET end == qr_code(f, ImageOf(fs[f]))
       IN  scans' = [scans EXCEPT ![f] =
                        [state |-> IF end.scanPc = "Raised" THEN "raised" ELSE "done",
                         ret |-> end.ret, raised |-> end.raised]]
    /\ UNCHANGED <<fs, pc, unscanned, results, mapping, directory, todo,
                   renames, fs0, dirs, scanVars>>

\* asyncio.wait called with return_when=FIRST_COMPLETED.
FirstCompleted == ScansIn("done") \cup ScansIn("raised") # {}

\* Line 203: asyncio.wait (return_when=ALL_COMPLETED, no timeout) returns
\* when every scan is over.
AllCompleted == ScansIn("queued") \cup ScansIn("running") = {}

\* Lines 203-204: the results of the completed scans are collected in the
\* order of a set of futures; result() raises the exception of a scan that
\* raised, which ends main.
CollectResults ==
    /\ pc = "scanning"
    /\ AllCompleted
    /\ IF ScansIn("raised") # {}
       THEN /\ pc' = "crashed"
            /\ results' = <<>>
       ELSE /\ pc' = "scanned"
            /\ \E completed \in Enumerations(ScansIn("done")) :
                results' = [i \in DOMAIN completed |-> scans[completed[i]].ret]
    /\ UNCHANGED <<fs, unscanned, mapping, directory, todo, scans, renames,
                   fs0, dirs, scanVars>>

\* Lines 227-228: the mapping is computed and one rename_image task is
\* made for each of its items.
MapAndGather ==
    /\ pc = "scanned"
    /\ \E order \in GroupOrders(_find_duplicates(results)) :
        mapping' = _file_mapping(results, order)
    /\ renames' = [old \in DOMAIN mapping' |->
                      [state |-> "pending", file |-> fs[old],
                       exists |-> None, moved |-> FALSE]]
    /\ results' = <<>>
    /\ pc' = "renaming"
    /\ UNCHANGED <<fs, unscanned, directory, todo, scans, fs0, dirs, scanVars>>

\* os.path.exists (line 209).
_exists(path) == path \in DOMAIN fs

\* os.rename (line 208): the file is stored under the new path, replacing
\* the file stored there, and no longer under the old one.
_rename(old, new) ==
    [p \in (DOMAIN fs \ {old}) \cup {new} |-> IF p = new THEN fs[old] ELSE fs[p]]

\* Line 214 without the test: the move is made in any case.
MoveAlways(exists) == TRUE

\* Line 214: the move is made if the destination was not seen to exist.
MoveDecided(exists) == ~exists

\* Lines 213-214: the task checks the destination, and ends if it exists.
RenameCheck(old) ==
    /\ pc = "renaming"
    /\ renames[old].state = "pending"
    /\ LET exists == _exists(mapping[old])
       IN  renames' = [renames EXCEPT
               ![old].exists = IF exists THEN "True" ELSE "False",
               ![old].state = IF MoveDecided(exists) THEN "moving" ELSE "done"]
    /\ UNCHANGED <<fs, pc, unscanned, results, mapping, directory, todo,
                   scans, fs0, dirs, scanVars>>

\* Lines 215-216: the task moves the file and ends.
RenameMove(old) ==
    /\ pc = "renaming"
    /\ renames[old].state = "moving"
    /\ fs' = _rename(old, mapping[old])
    /\ renames' = [renames EXCEPT ![old].state = "done", ![old].moved = TRUE]
    /\ UNCHANGED <<pc, unscanned, results, mapping, directory, todo, scans,
                   fs0, dirs, scanVars>>

\* Line 229 without run_until_complete: main does not wait for the tasks.
GatheredAtOnce == TRUE

\* Line 229: run_until_complete returns when every rename task is over.
Gathered == \A old \in DOMAIN renames : renames[old].state = "done"

\* Lines 229 and 222: main goes on with the next directory, or returns.
NextDirectory ==
    /\ pc = "renaming"
    /\ Gathered
    /\ IF todo = <<>>
       THEN /\ pc' = "done"
            /\ UNCHANGED <<directory, todo>>
       ELSE /\ pc' = "start"
            /\ directory' = Head(todo)
            /\ todo' = Tail(todo)
    /\ UNCHANGED <<fs, unscanned, results, mapping, scans, renames, fs0, dirs,
                   scanVars>>

\* main is called: nothing is discovered yet.
Init ==
    /\ fs \in {FileSystem(S) : S \in SubsetsUpTo(RunUniverse, MaxFiles)}
    /\ fs0 = fs
    /\ dirs \in ArgumentLists
    /\ directory = Head(dirs)
    /\ todo = Tail(dirs)
    /\ pc = "start"
    /\ unscanned = {}
    /\ results = <<>>
    /\ mapping = Empty
    /\ scans = Empty
    /\ renames = Empty
    /\ ScanIdle

\* The steps of the threads of the executor and of the rename tasks.
ScanStarts == \E f \in DOMAIN scans : StartScan(f)
ScanEnds == \E f \in DOMAIN scans : FinishScan(f)
RenameChecks == \E old \in DOMAIN renames : RenameCheck(old)
RenameMoves == \E old \in DOMAIN renames : RenameMove(old)

Next ==
    \/ GetQrCodes
    \/ ScanStarts
    \/ ScanEnds
    \/ CollectResults
    \/ MapAndGather
    \/ RenameChecks
    \/ RenameMoves
    \/ NextDirectory

Spec == Init /\ [][Next]_vars

\* The threads of the executor run: a thread that is free takes a scan that
\* is queued (ThreadPoolExecutor's work queue), and a call of qr_code that
\* was started comes to its end, each open_image and each decode ending.
ExecutorRuns == WF_vars(ScanStarts) /\ WF_vars(ScanEnds)

\* main is called with one directory or with two.
InitLive == Init /\ dirs \in {<<DirD>>, <<DirD, DirE>>}

\* The runs of main in which the threads of the executor run.
SpecLive == InitLive /\ [][Next]_vars /\ ExecutorRuns

----------------------------------------------------------------------------
(* Claims about qr_code.                                                   *)

\* The first symbol decode returned in attempt a has a text.
HasFirstText(a) ==
    /\ a.decoded.called
    /\ a.decoded.error = None
    /\ a.decoded.codes # <<>>
    /\ a.decoded.codes[1].data.utf8

\* The text of the first symbol of attempt a.
FirstText(a) == a.decoded.codes[1].data.text

\* Attempt a yields a code with the marker, or one without it: the code of
\* an attempt is the first symbol decode returns (qr[0], lines 160 and 177).
YieldsValid(a) == HasFirstText(a) /\ StartsWith(FirstText(a), MARKER)
YieldsInvalid(a) == HasFirstText(a) /\ ~StartsWith(FirstText(a), MARKER)

\* The scan is over.
ScanOver == scanPc \in {"Found", "Exhausted", "Raised"}

\* The number of calls of decode so far.
DecodeCalls == Cardinality({k \in DOMAIN attempts : attempts[k].decoded.called})

\* The number of (angle, filter) pairs configured.
NumTransforms == Len(Angles) * Len(Filters)

\* C3: the first decode attempt of a scan is made on the untransformed
\* image: no rotation and no filter applied to the freshly loaded source.
C3_FirstDecodeUntransformed ==
    (Len(attempts) >= 1 /\ attempts[1].decoded.called) =>
        /\ attempts[1].img.rotated = 0
        /\ attempts[1].img.filtered = None

\* C4: the direct decode is attempted before any transform attempt, and if
\* it yields a first code with the marker the scan returns that payload and
\* makes no transform attempt.
C4_DirectFirstThenNoTransform ==
    /\ \A k \in DOMAIN attempts : (attempts[k].kind = "direct") <=> (k = 1)
    /\ (Len(attempts) >= 1 /\ YieldsValid(attempts[1])) =>
        /\ scanPc = "Found"
        /\ ret = <<filename, FirstText(attempts[1])>>
        /\ Len(attempts) = 1

\* The direct decode found a code with the marker.
C4_Witness ==
    /\ scanPc = "Found"
    /\ Len(attempts) = 1
    /\ YieldsValid(attempts[1])

\* C5: a scan that ends in Found returns a payload with the marker, and
\* after an attempt that decodes a payload without the marker the scan goes
\* on with the next attempt (after the last one, to the fallback) instead
\* of returning that payload.
C5_InvalidPrefixNeverAccepted ==
    /\ scanPc = "Found" => StartsWith(ret[2], MARKER)
    /\ \A k \in DOMAIN attempts :
        (YieldsInvalid(attempts[k]) /\ k = Len(attempts)) =>
            \/ scanPc = "TryingTransforms" /\ idx = k /\ k <= NumTransforms
            \/ /\ scanPc = "Exhausted"
               /\ k = 1 + NumTransforms
               /\ ret = <<filename, FallbackName(filename)>>

\* A code without the marker was decoded and a later attempt was accepted.
C5_Witness ==
    /\ scanPc = "Found"
    /\ \E k \in DOMAIN attempts : k < Len(attempts) /\ YieldsInvalid(attempts[k])

\* C6: after a failed direct attempt the transform attempts are made in
\* the order of the Cartesian product, angles outermost, and the scan
\* returns the payload of the first attempt that yields a code with the
\* marker; no attempt is made after that one.
C6_TransformsInProductOrder ==
    /\ Len(attempts) >= 2 =>
        /\ attempts[1].decoded.called
        /\ ~YieldsValid(attempts[1])
    /\ \A k \in 2..Len(attempts) :
        /\ attempts[k].rotate = Angles[((k - 2) \div Len(Filters)) + 1]
        /\ attempts[k].filter = Filters[((k - 2) % Len(Filters)) + 1]
        /\ attempts[k].img.loaded =>
            /\ attempts[k].img.rotated = attempts[k].rotate
            /\ attempts[k].img.filtered = MAP_FILTERS[attempts[k].filter]
        /\ YieldsValid(attempts[k]) =>
            /\ k = Len(attempts)
            /\ scanPc = "Found"
            /\ ret = <<filename, FirstText(attempts[k])>>
    /\ (scanPc = "Found" /\ Len(attempts) >= 2) =>
        /\ YieldsValid(attempts[Len(attempts)])
        /\ \A k \in 1..(Len(attempts) - 1) : ~YieldsValid(attempts[k])

\* The first attempt of the second angle found the code.
C6_Witness ==
    /\ scanPc = "Found"
    /\ Len(attempts) = 2 + Len(Filters)
    /\ attempts[Len(attempts)].rotate = Angles[2]

\* C7: if neither the direct attempt nor any transform attempt yields a
\* code with the marker, the scan ends in Exhausted after exactly
\* 1 + |angles| x |filters| decode attempts and returns the path with the
\* base name of the file without its extension.  The claim is read as
\* being about the scans that come to a direct attempt, that is, whose
\* file could be loaded at line 151 (a scan that returns at line 155 makes
\* no decode attempt at all).
C7_ExhaustedAfterEveryAttempt ==
    (/\ ScanOver
     /\ attempts[1].decoded.called
     /\ \A k \in DOMAIN attempts : ~YieldsValid(attempts[k])) =>
        /\ scanPc = "Exhausted"
        /\ DecodeCalls = 1 + NumTransforms
        /\ ret = <<filename, FallbackName(filename)>>

----------------------------------------------------------------------------
(* Claims about the renames.                                               *)

\* C8: over any run, whatever the interleaving of the rename_image tasks,
\* no file is deleted or overwritten: the number of files stays what it
\* was when the run started and every file of the start still exists.
C8_NoFileLost ==
    /\ Cardinality(DOMAIN fs) = Cardinality(DOMAIN fs0)
    /\ Range(fs) = Range(fs0)

\* C9: if the destination exists when rename_image checks it, no move is
\* made, the file stays under its original name, and the task ends without
\* an error.
C9_ExistingDestinationSkipped ==
    \A old \in DOMAIN renames :
        renames[old].exists = "True" =>
            /\ renames[old].state = "done"
            /\ ~renames[old].moved
            /\ old \in DOMAIN fs
            /\ fs[old] = renames[old].file

\* A rename was skipped because another file is stored at its destination.
C9_Witness ==
    \E old \in DOMAIN renames :
        /\ renames[old].exists = "True"
        /\ renames[old].state = "done"
        /\ mapping[old] # old

----------------------------------------------------------------------------
(* Claims about find_images.                                               *)

\* C10: find_images never returns a file whose base name starts with the
\* marker "UMMZI", whatever its extension, every time it is run.
C10_NoMarkedFileDiscovered ==
    pc = "found" => \A p \in unscanned : ~StartsWith(Basename(p), MARKER)

----------------------------------------------------------------------------
(* Claims about _file_mapping.                                             *)

\* The groups of the result list and the size of one.
Groups == _find_duplicates(results)
GroupSize(qr) == Cardinality(Groups[qr])

\* C1: no two different original paths are assigned the same target path:
\* the targets of one run never collide.
C1_TargetsNeverCollide ==
    pc = "mapped" =>
        \A f, g \in DOMAIN mapping : f # g => mapping[f] # mapping[g]

\* C2: in every payload group of size k exactly one file is mapped to the
\* bare "<payload>.jpg" and the others to "<payload>_copy<n>.jpg", the
\* values of n being exactly 1..k-1, each used once.
C2_OneBareNameAndCopies1ToK ==
    pc = "mapped" =>
        \A qr \in DOMAIN Groups :
            /\ \A f \in Groups[qr] :
                \/ mapping[f] = Join(Dirname(f), qr \o <<".jpg">>)
                \/ \E n \in 1..(GroupSize(qr) - 1) :
                    mapping[f] = Join(Dirname(f), qr \o <<"_copy">> \o Decimal(n) \o <<".jpg">>)
            /\ Cardinality({f \in Groups[qr] :
                    mapping[f] = Join(Dirname(f), qr \o <<".jpg">>)}) = 1
            /\ \A n \in 1..(GroupSize(qr) - 1) :
                Cardinality({f \in Groups[qr] :
                    mapping[f] = Join(Dirname(f), qr \o <<"_copy">> \o Decimal(n) \o <<".jpg">>)}) = 1

\* A group of three files has been mapped.
C2_Witness ==
    /\ pc = "mapped"
    /\ \E qr \in DOMAIN Groups : GroupSize(qr) = 3

----------------------------------------------------------------------------
(* Claims about main.                                                      *)

\* The number of the directory of the argument list main is working on,
\* from 1.
Pass == Len(dirs) - Len(todo)

\* main works on a directory for the second time, having worked on nothing
\* else: the second iteration of line 222 differs from a second call of
\* main with the same directory in nothing the code reads.
SecondRun == Len(dirs) = 2 /\ dirs[1] = dirs[2] /\ Pass = 2

\* The rename tasks are those of the directory main is working on.
RenamesAreCurrent == pc \in {"renaming", "done"}

\* C11: running the tool again on a directory it has processed is a no-op:
\* every file decoding as in the first run, the second run performs no
\* rename, whatever the interleaving of the rename tasks and the copy
\* numbers of the first run were.
C11_SecondRunRenamesNothing ==
    (SecondRun /\ RenamesAreCurrent) =>
        \A old \in DOMAIN renames : ~renames[old].moved

\* C12: if the discovery of a directory returns no image the invocation
\* aborts there: no scan and no rename is made for that directory or for a
\* later one, and the renames made for the earlier directories remain.
C12_EmptyDirectoryAborts ==
    /\ []((pc # "start" /\ unscanned = {}) => (pc = "exited" /\ scans = Empty))
    /\ [][pc' = "exited" => (fs' = fs /\ renames' = renames /\ todo' = todo)]_vars
    /\ [][pc = "exited" => UNCHANGED vars]_vars

\* The second of three directories holds no image: the process has exited
\* after the renames of the first one, the third one still to come.
C12_Witness ==
    /\ pc = "exited"
    /\ todo # <<>>
    /\ \E old \in DOMAIN renames :
        renames[old].moved /\ mapping[old] \in DOMAIN fs

\* C13: any exception raised during one scan (a payload that is not valid
\* UTF-8, an error of the decoder) is turned into the fallback result of
\* that file, so get_qr_codes returns a result for every file and the
\* renames of the other files are carried out.
\* In the model: no scan task ends with an exception, a scan task that is
\* over holds a result for its file, and main is never ended by the
\* exception of a scan.
C13_ScanExceptionBecomesFallback ==
    /\ \A f \in DOMAIN scans :
        /\ scans[f].state # "raised"
        /\ scans[f].state = "done" => (scans[f].ret # NoValue /\ scans[f].ret[1] = f)
    /\ pc # "crashed"

----------------------------------------------------------------------------
(* Further claims about qr_code.                                           *)

\* C14: whenever open_image fails to load the file in an attempt of a scan
\* (the load of line 151 or the reload of a transform attempt) the failure
\* is a value, the attempt counts as "code not found", and the scan ends
\* with a payload of another attempt or with the fallback: the failed load
\* never makes qr_code raise.
C14_LoadFailureNeverRaises ==
    \A k \in DOMAIN attempts :
        ~attempts[k].img.loaded =>
            /\ attempts[k].img = NoImage
            /\ attempts[k].decoded.error = None
            /\ k = Len(attempts) =>
                \/ scanPc = "TryingTransforms" /\ idx = k
                \/ /\ scanPc = "Exhausted"
                   /\ ret = <<filename, FallbackName(filename)>>

\* C15: only symbols of the QR symbology are considered: a payload that is
\* returned in Found comes from a decoded symbol of type QR, and a symbol
\* of another type (a 1-D barcode) whose text starts with the marker is
\* never accepted as the payload.
C15_OnlyQrSymbolsAccepted ==
    scanPc = "Found" =>
        LET last == attempts[Len(attempts)]
        IN  /\ YieldsValid(last)
            /\ ret[2] = FirstText(last)
            /\ last.decoded.codes[1].type = "QRCODE"

----------------------------------------------------------------------------
(* Claims about get_qr_codes and the order of the work of main.            *)

\* A rename task of line 228 has been made and is not over.
RenameUnderWay == \E old \in DOMAIN renames : renames[old].state # "done"

\* C16: for each directory no rename starts before every scan task of the
\* directory is over, and the list get_qr_codes returns holds exactly one
\* (path, payload) entry for each discovered path, the entry qr_code
\* returned for it, in any order.
C16_RenamesAfterAllScans ==
    /\ (pc = "renaming" \/ RenameUnderWay) =>
        /\ DOMAIN scans = unscanned
        /\ \A f \in DOMAIN scans : scans[f].state = "done"
    /\ pc = "scanned" =>
        /\ Len(results) = Cardinality(unscanned)
        /\ ResultPaths(results) = unscanned
        /\ \A i \in DOMAIN results :
            results[i] = qr_code(results[i][1], ImageOf(fs[results[i][1]])).ret

\* The renames of a directory of three images are under way, one is made.
C16_Witness ==
    /\ pc = "renaming"
    /\ Cardinality(unscanned) = 3
    /\ RenameUnderWay
    /\ \E old \in DOMAIN renames : renames[old].moved

\* C17: the directories are processed one after another in the order of
\* the argument list: no scan of a directory starts until every scan and
\* every rename task of the directory before it is over.
C17_DirectoriesOneAfterAnother ==
    /\ directory = dirs[Pass]
    /\ todo = SubSeq(dirs, Pass + 1, Len(dirs))
    /\ pc \in {"start", "scanning", "scanned"} => ~RenameUnderWay
    /\ \A f \in DOMAIN scans :
        scans[f].state \in {"queued", "running"} =>
            /\ pc = "scanning"
            /\ StartsWith(f, directory \o <<"/">>)

\* A scan of the second directory runs after a rename of the first one.
C17_Witness ==
    /\ Pass = 2
    /\ dirs[1] # dirs[2]
    /\ ScansIn("running") # {}
    /\ \E old \in DOMAIN renames :
        renames[old].moved /\ StartsWith(old, dirs[1] \o <<"/">>)

----------------------------------------------------------------------------
(* Further claims about _file_mapping.                                     *)

----------------------------------------------------------------------------
(* Claims about the executor.                                              *)

\* C19: at every moment of a directory run at most MaxWorkers scans (calls
\* of qr_code) are executing, and every scan that was submitted is
\* eventually executed, each decode ending: when scans are queued, a
\* moment comes at which none is queued or running any more.
C19_BoundedWorkersAndProgress ==
    /\ [](Cardinality(ScansIn("running")) <= MaxWorkers)
    /\ (ScansIn("queued") # {}) ~> (pc = "scanning" /\ AllCompleted)

\* Every thread is executing a scan and another scan waits for a thread.
C19_Witness ==
    /\ Cardinality(ScansIn("running")) = MaxWorkers
    /\ ScansIn("queued") # {}

----------------------------------------------------------------------------
(* Claims about a run in which no code is found.                           *)

\* The state in which the scan of the discovered path f ended in the
\* directory run whose rename tasks exist.
ScanEnd(f) == qr_code(f, ImageOf(renames[f].file)).scanPc

\* Every scan of the directory run ended in Exhausted, and every discovered
\* file has the extension ".jpg".
AllExhaustedJpg ==
    /\ RenamesAreCurrent
    /\ DOMAIN renames # {}
    /\ \A f \in DOMAIN renames :
        ScanEnd(f) = "Exhausted" /\ EndsWith(f, <<".jpg">>)

\* No two discovered files of one directory share a base name; no two
\* discovered files of the run do.
NoSharedNameInDirectory ==
    \A f, g \in DOMAIN renames :
        (f # g /\ Dirname(f) = Dirname(g)) => Basename(f) # Basename(g)
NoSharedName ==
    \A f, g \in DOMAIN renames : f # g => Basename(f) # Basename(g)

\* Each file's target is its own path and no rename is made: each task
\* that is over was stopped by the existence check.
EveryRenameSkipped ==
    \A f \in DOMAIN renames :
        /\ mapping[f] = f
        /\ renames[f].state # "moving"
        /\ ~renames[f].moved
        /\ renames[f].state = "done" => renames[f].exists = "True"

=============================================================================
